---- MODULE Spec2Model ----
(***************************************************************************)
(* e64b: a 14-opcode assembler and interpreter (src/src/main.rs).          *)
(*                                                                         *)
(* An i64 is modelled by its eight two's-complement bytes, most            *)
(* significant first (the order to_msb_bytes writes them), so that every   *)
(* 64-bit and 56-bit quantity keeps its full width.                        *)
(***************************************************************************)
EXTENDS Integers, Sequences, FiniteSets

\* ------------------------------------------------------------------ bounds
\* Fuel of the run loop: the loop of main has no bound of its own.
MaxSteps == 44

\* --------------------------------------------------------- program constants
ROM_SIZE == 256
RAM_SIZE == 256
\* Number of variants of Instruction (tags 0 .. 13).
NumInstructions == 14
\* Bytes of one packed RomLayout (64 bits).
RecordBytes == 8

Byte == 0 .. 255

\* --------------------------------------------------------------- i64 values
\* Eight bytes, b[1] the most significant.
I64Fill(b) == <<b, b, b, b, b>>
\* The i64 of a small integer n, -2^23 <= n < 2^23.
I64Of(n) ==
    I64Fill(IF n < 0 THEN 255 ELSE 0)
        \o << (n \div 65536) % 256, (n \div 256) % 256, n % 256 >>

Zero64 == I64Of(0)
MinusOne64 == I64Of(-1)
\* 2^55 - 1, 2^55, -2^55, -2^55 - 1: the edges of the 56-bit signed range.
Pow55m1 == <<0, 127, 255, 255, 255, 255, 255, 255>>
Pow55 == <<0, 128, 0, 0, 0, 0, 0, 0>>
NegPow55 == <<255, 128, 0, 0, 0, 0, 0, 0>>
NegPow55m1 == <<255, 127, 255, 255, 255, 255, 255, 255>>
\* 2^56 - 1
Pow56m1 == <<0, 255, 255, 255, 255, 255, 255, 255>>

IsNeg(v) == v[1] >= 128

\* Carry into byte position i of the byte-wise sum of a and b.
RECURSIVE CarryInto(_, _, _)
CarryInto(a, b, i) ==
    IF i = Len(a) THEN 0
    ELSE (a[i + 1] + b[i + 1] + CarryInto(a, b, i + 1)) \div 256

\* Sum of two equally long big-endian byte strings, modulo 256^Len.
WrapAdd(a, b) ==
    [i \in 1 .. Len(a) |-> (a[i] + b[i] + CarryInto(a, b, i)) % 256]

\* i64::overflowing_add mutated: the flag is the unsigned carry out.
overflowing_add_unsigned_carry(a, b) ==
    [value |-> WrapAdd(a, b),
     carry |-> (a[1] + b[1] + CarryInto(a, b, 1)) >= 256]

\* i64::overflowing_add: the wrapped sum, and whether the signed sum
\* overflowed (operands of one sign, result of the other).
overflowing_add(a, b) ==
    [value |-> WrapAdd(a, b),
     carry |-> IsNeg(a) = IsNeg(b) /\ IsNeg(WrapAdd(a, b)) # IsNeg(a)]

\* The index check mutated: the value is cut to its low byte (`as u8`).
IndexInRange_truncating(v) == v[8] \in Byte

\* `v as usize` used as an index of a 256-element array, or converted to u8
\* by try_into: in range exactly when the upper seven bytes are zero.
IndexInRange(v) == \A i \in 1 .. 7 : v[i] = 0
IndexOf(v) == v[8]

\* ------------------------------------------------------------- Instruction
\* The variants of enum Instruction in declaration order; the tag of a
\* variant (PrimitiveEnum_u8) is its position, counted from 0.
Instructions ==
    <<"NOP", "LDA", "STA", "ADD", "SUB", "OUT", "JMP",
      "JC", "JZ", "HLT", "LDI", "ADI", "LDR", "ADR">>

InstructionSet == {Instructions[i] : i \in 1 .. NumInstructions}

\* Instruction::to_primitive
to_primitive(ins) == (CHOOSE i \in 1 .. NumInstructions : Instructions[i] = ins) - 1

\* Instruction::from_primitive: None (here "?") for a tag that names no variant.
from_primitive(tag) ==
    IF tag < NumInstructions THEN Instructions[tag + 1] ELSE "?"

\* --------------------------------------------------------------- RomLayout
\* Integer<i64, Bits<56>>::from_primitive, which `value.into()` calls (crate
\* packed_struct, a dependency of main.rs): the value is ANDed with the
\* 56-bit mask; nothing is rejected and no sign is kept.
from_primitive56(v) == [v EXCEPT ![1] = 0]

\* RomLayout::new
RomLayout_new(instruction, value) ==
    [instruction |-> instruction, value |-> from_primitive56(value)]

\* Integer<i64, Bits<56>>::to_msb_bytes: the low seven bytes.
to_msb_bytes(v) == SubSeq(v, 2, 8)

\* Integer<i64, Bits<56>>::from_msb_bytes: the seven bytes are copied behind
\* a zero byte; the value is not sign-extended.
from_msb_bytes(b) == from_primitive56(<<0>> \o b)

\* RomLayout::pack (derived): byte 0 the tag, bytes 1..7 the value.
pack(r) == <<to_primitive(r.instruction)>> \o to_msb_bytes(r.value)

\* RomLayout::unpack_from_slice (derived): Err for a slice that is not eight
\* bytes long or whose tag names no Instruction.
unpack_ok(chunk) ==
    Len(chunk) = RecordBytes /\ from_primitive(chunk[1]) # "?"

unpack_from_slice(chunk) ==
    [instruction |-> from_primitive(chunk[1]),
     value |-> from_msb_bytes(SubSeq(chunk, 2, 8))]

\* --------------------------------------------------------------- assembler
\* A line of source after split(' '): a sequence of tokens. A token carries
\* its text and what str::parse::<i64> makes of it (<<>> when it fails).
Word(text) == [text |-> text, int |-> <<>>]
Num(v) == [text |-> "#", int |-> v]

TakesValue ==
    {"LDA", "STA", "ADD", "SUB", "JMP", "JC", "JZ", "LDI", "ADI", "LDR", "ADR"}

\* RomLayout::from_str. "ok" for Ok, "err" for Err(()), "todo" for the
\* todo!() panic of an unknown mnemonic. A line always has a first token.
from_str(line) ==
    LET instruction == line[1].text
        value_ok == Len(line) >= 2 /\ line[2].int # <<>>
    IN  IF instruction \notin InstructionSet
            THEN [res |-> "todo", rom |-> RomLayout_new("NOP", Zero64)]
        ELSE IF instruction \notin TakesValue
            THEN [res |-> "ok", rom |-> RomLayout_new(instruction, Zero64)]
        ELSE IF ~value_ok
            THEN [res |-> "err", rom |-> RomLayout_new("NOP", Zero64)]
        ELSE [res |-> "ok", rom |-> RomLayout_new(instruction, line[2].int)]

\* The check of compile_rom mutated: only the first line can fail.
compile_ok_first_line(program) ==
    IF program = <<>> THEN TRUE ELSE from_str(program[1]).res = "ok"

\* compile_rom: every line parsed in order; the unwrap (or the todo!())
\* panics when some line does not parse.
compile_ok(program) ==
    {i \in 1 .. Len(program) : from_str(program[i]).res # "ok"} = {}

compile_rom(program) ==
    [i \in 1 .. Len(program) |-> from_str(program[i]).rom]

\* main, line 227: the packed records, flattened: byte j of record k is
\* byte 8 * k + j of the artifact.
serialize(roms) ==
    [n \in 1 .. RecordBytes * Len(roms) |->
        pack(roms[((n - 1) \div RecordBytes) + 1])[((n - 1) % RecordBytes) + 1]]

\* ------------------------------------------------------------------ loader
\* slice::chunks(8): consecutive chunks of eight bytes, the last one shorter
\* when the length is not a multiple of eight.
NumChunks(bytes) == (Len(bytes) + RecordBytes - 1) \div RecordBytes

chunk(bytes, k) ==
    SubSeq(bytes, RecordBytes * (k - 1) + 1,
           IF RecordBytes * k < Len(bytes) THEN RecordBytes * k ELSE Len(bytes))

\* read_rom panics (unwrap) when a chunk does not unpack.
read_rom_ok(bytes) ==
    {k \in 1 .. NumChunks(bytes) : ~unpack_ok(chunk(bytes, k))} = {}

\* read_rom mutated: the padding is NOP records.
read_rom_nop_padding(bytes) ==
    [a \in 0 .. ROM_SIZE - 1 |->
        IF a < NumChunks(bytes)
            THEN unpack_from_slice(chunk(bytes, a + 1))
            ELSE RomLayout_new("NOP", Zero64)]

\* read_rom: the unpacked chunks, resized to ROM_SIZE (padded with
\* (HLT, 0), or cut), as an array indexed from 0.
read_rom(bytes) ==
    [a \in 0 .. ROM_SIZE - 1 |->
        IF a < NumChunks(bytes)
            THEN unpack_from_slice(chunk(bytes, a + 1))
            ELSE RomLayout_new("HLT", Zero64)]

\* ------------------------------------------------------------ ProgramState
\* ProgramFlags, as the set of the flags that are set.
NONE == {}
flags_set(f, flag, on) == IF on THEN f \cup {flag} ELSE f \ {flag}

\* ProgramState::new. out is the standard output, panicked whether the
\* process has panicked.
ProgramState_new(rom_) ==
    [program_counter |-> 0,
     ram |-> [a \in 0 .. RAM_SIZE - 1 |-> Zero64],
     rom |-> rom_,
     reg_a |-> Zero64,
     reg_jump |-> 0,
     flags |-> NONE,
     out |-> <<>>,
     panicked |-> FALSE]

panic(s) == [s EXCEPT !.panicked = TRUE]

\* Assignment to reg_a mutated: a load also sets ZERO from the value.
set_reg_a_flagging(s, v) ==
    [s EXCEPT !.reg_a = v, !.flags = flags_set(@, "ZERO", v = Zero64)]

\* self.reg_a = v (LDA, LDI, LDR)
set_reg_a(s, v) == [s EXCEPT !.reg_a = v]

\* Assignment to a RAM cell mutated: the next cell is written as well.
set_ram_spill(s, a, x) ==
    [s EXCEPT !.ram[a] = x, !.ram[(a + 1) % RAM_SIZE] = x]

\* self.ram[a] = x (STA)
set_ram(s, a, x) == [s EXCEPT !.ram[a] = x]

\* ProgramState::alu
alu(s, value) ==
    LET r == overflowing_add(s.reg_a, value)
    IN  [s EXCEPT !.flags = flags_set(flags_set(@, "CARRY", r.carry),
                                      "ZERO", r.value = Zero64),
                  !.reg_a = r.value]

\* The arms of JMP, JC and JZ once the jump is taken: JUMP is inserted,
\* then try_into().unwrap() panics for a target that is no u8.
jump(s, v) ==
    LET t == [s EXCEPT !.flags = @ \cup {"JUMP"}]
    IN  IF IndexInRange(v) THEN [t EXCEPT !.reg_jump = IndexOf(v)]
        ELSE panic(t)

\* The match of ProgramState::step on the fetched record. An index outside
\* the array panics; SUB, ADI and ADR are todo!().
execute(s, rom) ==
    LET v == rom.value
        i == rom.instruction
    IN  CASE i = "NOP" -> s
          [] i = "LDA" -> IF IndexInRange(v) THEN set_reg_a(s, s.ram[IndexOf(v)])
                          ELSE panic(s)
          [] i = "STA" -> IF IndexInRange(v) THEN set_ram(s, IndexOf(v), s.reg_a)
                          ELSE panic(s)
          [] i = "ADD" -> IF IndexInRange(v) THEN alu(s, s.ram[IndexOf(v)])
                          ELSE panic(s)
          [] i = "SUB" -> panic(s)
          [] i = "OUT" -> [s EXCEPT !.out = Append(@, s.reg_a)]
          [] i = "JMP" -> jump(s, v)
          [] i = "JC" -> IF "CARRY" \in s.flags THEN jump(s, v) ELSE s
          [] i = "JZ" -> IF "ZERO" \in s.flags THEN jump(s, v) ELSE s
          [] i = "HLT" -> s
          [] i = "LDI" -> set_reg_a(s, v)
          [] i = "ADI" -> panic(s)
          [] i = "LDR" -> IF IndexInRange(v)
                              THEN set_reg_a(s, s.rom[IndexOf(v)].value)
                          ELSE panic(s)
          [] i = "ADR" -> panic(s)

\* ProgramState::count mutated: the JUMP flag is not removed.
count_sticky_jump(s, checks) ==
    IF "JUMP" \in s.flags
        THEN [s EXCEPT !.program_counter = s.reg_jump]
    ELSE IF s.program_counter = 255
        THEN IF checks THEN panic(s) ELSE [s EXCEPT !.program_counter = 0]
    ELSE [s EXCEPT !.program_counter = @ + 1]

\* ProgramState::count mutated: the JUMP flag is ignored.
count_no_jump(s, checks) ==
    IF s.program_counter = 255
        THEN IF checks THEN panic(s) ELSE [s EXCEPT !.program_counter = 0]
    ELSE [s EXCEPT !.program_counter = @ + 1]

\* ProgramState::count. `program_counter += 1` on a u8 holding 255 panics
\* when the build checks overflow (the dev profile) and wraps when it does
\* not (the release profile).
count(s, checks) ==
    IF "JUMP" \in s.flags
        THEN [s EXCEPT !.program_counter = s.reg_jump, !.flags = @ \ {"JUMP"}]
    ELSE IF s.program_counter = 255
        THEN IF checks THEN panic(s) ELSE [s EXCEPT !.program_counter = 0]
    ELSE [s EXCEPT !.program_counter = @ + 1]

\* ProgramState::step
step(s, checks) ==
    LET e == execute(s, s.rom[s.program_counter])
    IN  IF e.panicked THEN e ELSE count(e, checks)

\* ------------------------------------------------------------------ inputs
Line0(m) == <<Word(m)>>
Line1(m, v) == <<Word(m), Num(v)>>
Nops(n) == [k \in 1 .. n |-> Line0("NOP")]

\* The operands tried: small addresses, the ends of the u8 range, and the
\* edges of the 56-bit field.
EdgeValues ==
    {Zero64, I64Of(5), I64Of(256), MinusOne64,
     Pow55m1, Pow55, NegPow55, NegPow55m1}
SmallValues == {Zero64, I64Of(1), I64Of(3), I64Of(4), MinusOne64, Pow55m1, NegPow55}
ProbeValues == {Zero64, I64Of(3), I64Of(255), I64Of(256), MinusOne64}

\* One line of every mnemonic, with every probe operand where one is taken.
ProbeLines ==
    {Line0(m) : m \in InstructionSet \ TakesValue}
        \cup {Line1(m, v) : m \in TakesValue, v \in ProbeValues}
FewLines ==
    {Line0("NOP"), Line0("HLT"), Line0("OUT"), Line1("JMP", I64Of(3)),
     Line1("JZ", I64Of(1)), Line1("LDA", I64Of(3)), Line1("SUB", Zero64)}

\* LDI v; OUT; HLT
PrintProgram(v) == <<Line1("LDI", v), Line0("OUT"), Line0("HLT")>>

\* LDI a; STA 0; LDI b; ADD 0; OUT; HLT
AddProgram(a, b) ==
    <<Line1("LDI", a), Line1("STA", Zero64), Line1("LDI", b),
      Line1("ADD", Zero64), Line0("OUT"), Line0("HLT")>>

\* JMP 0, then anything.
SpinProgram(x) == <<Line1("JMP", Zero64), x>>

\* A fresh machine, or one with ZERO set by 0 + 0, before the probe.
FreshProbe(x, y) == <<x, y>>
ZeroProbe(x, y) == <<Line1("ADD", Zero64), x, y>>

\* 2^55 doubled until the sum overflows (CARRY at address 5, the
\* accumulator -2^63), doubled again to 0 (CARRY and ZERO at address 8),
\* then 1 + 1 (no flag at address 12); the probe sits at one of the three.
DoublingProgram(at, x) ==
    <<Line1("LDI", Pow55), Line1("STA", Zero64), Line1("ADD", Zero64),
      Line1("JC", I64Of(5)), Line1("JMP", I64Of(1)),
      IF at = 5 THEN x ELSE Line0("NOP"),
      Line1("STA", Zero64), Line1("ADD", Zero64),
      IF at = 8 THEN x ELSE Line0("NOP"),
      Line1("LDI", I64Of(1)), Line1("STA", I64Of(1)), Line1("ADD", I64Of(1)),
      IF at = 12 THEN x ELSE Line0("NOP"),
      Line0("OUT"), Line0("HLT")>>

\* A full image of 256 lines: f, JMP 254, NOPs, then x at 254 and y at 255.
HighProgram(f, x, y) == <<f, Line1("JMP", I64Of(254))>> \o Nops(252) \o <<x, y>>

\* LDR 1; LDI v; OUT; HLT: the operand of the second record read as data.
RomReadProgram(v) ==
    <<Line1("LDR", I64Of(1)), Line1("LDI", v), Line0("OUT"), Line0("HLT")>>

BadSources ==
    {<<Line1("FOO", I64Of(1))>>,
     <<<<Word("LDA"), Word("x")>>>>,
     <<Line0("LDA")>>,
     <<Line1("LDI", I64Of(5)), Line0("OUT"), Line0("FOO")>>,
     <<Line1("LDI", I64Of(5)), <<Word("STA"), Word("x")>>, Line0("HLT")>>,
     <<Line1("LDI", I64Of(5)), Line1("FOO", I64Of(1)), Line0("HLT")>>,
     <<Line0("OUT"), Line0("HLT"), Line0("JMP")>>,
     <<Line1("LDI", I64Of(5)), <<Word("")>>, Line0("HLT")>>}

\* Lines with tokens after the last one that is read.
TrailingSources ==
    {<<Line1("OUT", I64Of(5)),
       <<Word("LDI"), Num(I64Of(7)), Word("junk")>>,
       <<Word("HLT"), Word("x")>>>>}

Sources ==
    {PrintProgram(v) : v \in EdgeValues}
        \cup {AddProgram(a, b) : a \in SmallValues, b \in SmallValues}
        \cup {SpinProgram(x) : x \in FewLines}
        \cup {FreshProbe(x, y) : x \in ProbeLines, y \in {Line0("OUT")}}
        \cup {ZeroProbe(x, y) : x \in ProbeLines, y \in {Line0("OUT")}}
        \cup {DoublingProgram(at, x) : at \in {5, 8, 12}, x \in ProbeLines}
        \cup {HighProgram(f, x, y) :
                f \in {Line0("NOP"), Line1("ADD", Zero64)},
                x \in FewLines,
                y \in FewLines}
        \cup {RomReadProgram(v) : v \in EdgeValues}
        \cup BadSources
        \cup TrailingSources
        \cup {<<>>}

\* Images that no assembly produced: a cut record, unknown tags, a value
\* field with its top bit set, 257 records, and 256 records followed by
\* one of an unknown tag.
Image(roms) == serialize(roms)
R(i, v) == [instruction |-> i, value |-> v]

RawImages ==
    {<<>>,
     pack(R("LDI", I64Of(5))) \o <<5, 0, 0>>,
     <<3, 0>>,
     <<14, 0, 0, 0, 0, 0, 0, 0>>,
     pack(R("OUT", Zero64)) \o <<255, 0, 0, 0, 0, 0, 0, 1>>,
     <<10, 255, 255, 255, 255, 255, 255, 255>> \o pack(R("OUT", Zero64)),
     <<10, 128, 0, 0, 0, 0, 0, 0>> \o pack(R("OUT", Zero64)),
     Image(<<R("LDI", I64Of(9)), R("JMP", I64Of(254))>>
           \o [k \in 1 .. 252 |-> R("NOP", Zero64)]
           \o <<R("HLT", Zero64), R("NOP", Zero64), R("OUT", Zero64)>>),
     Image([k \in 1 .. 256 |-> R("NOP", Zero64)]) \o <<77, 0, 0, 0, 0, 0, 0, 0>>}

\* -------------------------------------------------------------------- state
VARIABLES
    status,           \* where main is: "compile", "run", "loop", "done", "panic"
    overflow_checks,  \* whether the build checks integer overflow
    source,           \* the lines of the file given to -c
    bytes,            \* the bytes of the file given to -r
    program_counter, ram, rom, reg_a, reg_jump, flags,  \* ProgramState
    out,              \* the values printed
    steps,            \* calls of step made
    last              \* what the last call of step fetched and found

vars ==
    <<status, overflow_checks, source, bytes, program_counter, ram, rom,
      reg_a, reg_jump, flags, out, steps, last>>

machine == <<program_counter, ram, rom, reg_a, reg_jump, flags, out>>

\* The ProgramState held by main.
State ==
    [program_counter |-> program_counter, ram |-> ram, rom |-> rom,
     reg_a |-> reg_a, reg_jump |-> reg_jump, flags |-> flags, out |-> out,
     panicked |-> FALSE]

SetState(s) ==
    /\ program_counter' = s.program_counter
    /\ ram' = s.ram
    /\ rom' = s.rom
    /\ reg_a' = s.reg_a
    /\ reg_jump' = s.reg_jump
    /\ flags' = s.flags
    /\ out' = s.out

NoStep ==
    [instruction |-> "?", value |-> Zero64, program_counter |-> 0,
     reg_a |-> Zero64, flags |-> NONE, operand |-> Zero64]

Init ==
    /\ overflow_checks \in BOOLEAN
    /\ \/ status = "compile" /\ source \in Sources /\ bytes = <<>>
       \/ status = "run" /\ source = <<>> /\ bytes \in RawImages
    /\ program_counter = 0
    /\ ram = [a \in 0 .. RAM_SIZE - 1 |-> Zero64]
    /\ rom = read_rom(<<>>)
    /\ reg_a = Zero64
    /\ reg_jump = 0
    /\ flags = NONE
    /\ out = <<>>
    /\ steps = 0
    /\ last = NoStep

\* main, lines 224-235: the source is compiled and the artifact written.
Compile ==
    /\ status = "compile"
    /\ compile_ok(source)
    /\ bytes' = serialize(compile_rom(source))
    /\ status' = "run"
    /\ UNCHANGED <<overflow_checks, source, machine, steps, last>>

\* compile_rom panics: nothing is written.
CompilePanic ==
    /\ status = "compile"
    /\ ~compile_ok(source)
    /\ status' = "panic"
    /\ UNCHANGED <<overflow_checks, source, bytes, machine, steps, last>>

\* main, line 239: ProgramState::new(read_rom(&rom))
Load ==
    /\ status = "run"
    /\ read_rom_ok(bytes)
    /\ SetState(ProgramState_new(read_rom(bytes)))
    /\ status' = "loop"
    /\ UNCHANGED <<overflow_checks, source, bytes, steps, last>>

\* The failed load mutated: the error is swallowed and the loop runs on the
\* ROM of an empty image.
LoadPanic_swallowed ==
    /\ status = "run"
    /\ ~read_rom_ok(bytes)
    /\ status' = "loop"
    /\ UNCHANGED <<overflow_checks, source, bytes, machine, steps, last>>

\* read_rom panics: no ProgramState is made.
LoadPanic ==
    /\ status = "run"
    /\ ~read_rom_ok(bytes)
    /\ status' = "panic"
    /\ UNCHANGED <<overflow_checks, source, bytes, machine, steps, last>>

\* main, lines 240-244: one turn of the loop.
Step ==
    /\ status = "loop"
    /\ steps < MaxSteps
    /\ LET fetched == rom[program_counter]
           s == step(State, overflow_checks)
       IN  /\ SetState(s)
           /\ status' = IF s.panicked THEN "panic"
                        ELSE IF fetched.instruction = "HLT" THEN "done"
                        ELSE "loop"
           /\ last' = [instruction |-> fetched.instruction,
                       value |-> fetched.value,
                       program_counter |-> program_counter,
                       reg_a |-> reg_a,
                       flags |-> flags,
                       operand |-> IF IndexInRange(fetched.value)
                                       THEN ram[IndexOf(fetched.value)]
                                   ELSE Zero64]
    /\ steps' = steps + 1
    /\ UNCHANGED <<overflow_checks, source, bytes>>

Next == Compile \/ CompilePanic \/ Load \/ LoadPanic \/ Step

Spec == Init /\ [][Next]_vars

TypeOK ==
    /\ status \in {"compile", "run", "loop", "done", "panic"}
    /\ program_counter \in 0 .. 255
    /\ reg_jump \in 0 .. 255
    /\ flags \subseteq {"CARRY", "ZERO", "JUMP"}
    /\ \A i \in 1 .. 8 : reg_a[i] \in Byte
    /\ steps \in 0 .. MaxSteps

\* ------------------------------------------------------------------- claims
\* Whether an i64 lies in the signed 56-bit range, -2^55 .. 2^55 - 1.
Within56(v) == (v[1] = 0 /\ v[2] < 128) \/ (v[1] = 255 /\ v[2] >= 128)

\* The exact sum of two i64, as nine bytes, and whether it is an i64.
SignExtend9(v) == <<IF IsNeg(v) THEN 255 ELSE 0>> \o v
ExactSum(a, b) == WrapAdd(SignExtend9(a), SignExtend9(b))
Fits64(x) == (x[1] = 0 /\ x[2] < 128) \/ (x[1] = 255 /\ x[2] >= 128)
MinInt64 == <<128, 0, 0, 0, 0, 0, 0, 0>>

Stepped == last.instruction # "?"
UsesIndex == {"LDA", "STA", "ADD", "SUB", "LDR", "ADR", "JMP", "JC", "JZ"}
NonAlu == {"NOP", "LDA", "STA", "OUT", "JMP", "JC", "JZ", "HLT", "LDI", "LDR"}
ZeroRam == [a \in 0 .. RAM_SIZE - 1 |-> Zero64]
OperandsOf(src) ==
    {src[k][2].int : k \in {j \in 1 .. Len(src) : Len(src[j]) >= 2}} \ {<<>>}

\* Where the claim C1 puts the program counter after the last step.
C1_Target ==
    LET p == last.program_counter
        a == IndexOf(last.value)
    IN  CASE last.instruction = "JMP" -> a
          [] last.instruction = "JC" -> IF "CARRY" \in last.flags THEN a ELSE p + 1
          [] last.instruction = "JZ" -> IF "ZERO" \in last.flags THEN a ELSE p + 1
          [] OTHER -> p + 1

\* C1: a step taken at a program counter p < 255, with an operand in
\* 0 .. 255 wherever it is an index or a target, leaves the program counter
\* at the target of a JMP, at the target of a JC or JZ whose flag was set,
\* and at p + 1 for everything else.
C1_ControlAdvance ==
    (/\ Stepped
     /\ last.program_counter < 255
     /\ (last.instruction \in UsesIndex => IndexInRange(last.value)))
        => program_counter = C1_Target

\* C2: ADD addr leaves the accumulator at the wrapped sum of the old
\* accumulator and RAM[addr], CARRY set exactly when the exact sum is no
\* i64, and ZERO set exactly when the new accumulator is 0, whatever the
\* flags were.
C2_AddAlu ==
    (last.instruction = "ADD" /\ IndexInRange(last.value))
        => /\ reg_a = SubSeq(ExactSum(last.reg_a, last.operand), 2, 9)
           /\ ("CARRY" \in flags) = ~Fits64(ExactSum(last.reg_a, last.operand))
           /\ ("ZERO" \in flags) = (reg_a = Zero64)

\* 2^62 + 2^62: the sum overflows to -2^63 and raises CARRY, not ZERO.
C2_Witness ==
    /\ last.instruction = "ADD"
    /\ reg_a = MinInt64
    /\ "CARRY" \in flags
    /\ "ZERO" \notin flags
    /\ "CARRY" \notin last.flags

\* C3: a step of an opcode that is not an ALU operation leaves CARRY and
\* ZERO as they were.
C3_FlagsSticky ==
    last.instruction \in NonAlu
        => flags \cap {"CARRY", "ZERO"} = last.flags \cap {"CARRY", "ZERO"}

\* LDI 0 after an overflowing ADD: the accumulator is 0, ZERO is clear and
\* CARRY is still set.
C3_Witness ==
    /\ last.instruction = "LDI"
    /\ reg_a = Zero64
    /\ flags = {"CARRY"}
    /\ status = "loop"

\* C4: a step at program counter 255 that takes no jump (and whose opcode
\* is implemented and indexes within range) leaves the program counter at 0,
\* and the run has not panicked.
C4_WrapNoPanic ==
    (/\ Stepped
     /\ last.program_counter = 255
     /\ last.instruction \in {"NOP", "OUT", "HLT", "LDI", "LDA", "STA", "ADD", "LDR"}
     /\ (last.instruction \in UsesIndex => IndexInRange(last.value)))
        => program_counter = 0 /\ status # "panic"

\* C5: the run is over exactly when the last step fetched HLT, and the run
\* of LDI v; OUT; HLT, v in the signed 56-bit range, ends after three steps
\* having printed v and nothing else.
C5_PrintHalts ==
    /\ status = "done" => last.instruction = "HLT"
    /\ (status = "loop" /\ Stepped) => last.instruction # "HLT"
    /\ \A v \in EdgeValues :
        (Within56(v) /\ source = PrintProgram(v) /\ status \in {"done", "panic"})
            => status = "done" /\ out = <<v>> /\ steps = 3

\* C6: the run of LDI a; STA 0; LDI b; ADD 0; OUT; HLT prints a + b and
\* nothing else, leaves a in RAM[0], and leaves CARRY and ZERO clear when
\* a + b is a non-zero i64.
C6_AddProgram ==
    \A a \in SmallValues, b \in SmallValues :
        (source = AddProgram(a, b) /\ status \in {"done", "panic"})
            => /\ status = "done"
               /\ out = <<WrapAdd(a, b)>>
               /\ ram[0] = a
               /\ (Fits64(ExactSum(a, b)) /\ WrapAdd(a, b) # Zero64
                      => flags \cap {"CARRY", "ZERO"} = {})

\* C7: with JMP 0 at address 0 the run stays in the loop at program
\* counter 0: it neither halts nor panics, and the accumulator, the RAM, the
\* flags and the output stay as ProgramState::new made them.
C7_SpinForever ==
    (status \in {"loop", "done", "panic"}
        /\ rom[0] = [instruction |-> "JMP", value |-> Zero64])
        => /\ status = "loop"
           /\ program_counter = 0
           /\ reg_a = Zero64
           /\ ram = ZeroRam
           /\ flags = NONE
           /\ out = <<>>

C7_Witness ==
    /\ rom[0] = [instruction |-> "JMP", value |-> Zero64]
    /\ rom[1].instruction = "HLT"
    /\ last.instruction = "JMP"
    /\ steps >= 3
    /\ status = "loop"

\* C8: a record assembled with an operand in the signed 56-bit range,
\* packed and unpacked again, is the record of the same opcode and operand.
C8_RoundTrip ==
    (status = "loop" /\ source # <<>>)
        => \A k \in 1 .. Len(source) :
              (source[k][1].text \in TakesValue /\ Within56(source[k][2].int))
                  => rom[k - 1] = [instruction |-> source[k][1].text,
                                   value |-> source[k][2].int]

\* C9: a source with an operand outside the signed 56-bit range is not
\* encoded: no artifact is made of it and nothing is loaded or run.
C9_RangeRejected ==
    (\E v \in OperandsOf(source) : ~Within56(v)) => status \in {"compile", "panic"}

\* C10: a loaded buffer of n <= 256 whole records gives a ROM whose record
\* a < n is the record unpacked from bytes 8a .. 8a + 7 and whose records
\* from n on are (HLT, 0).
C10_LoadPads ==
    (status \in {"loop", "done"} /\ Len(bytes) <= RecordBytes * ROM_SIZE)
        => /\ DOMAIN rom = 0 .. 255
           /\ \A a \in 0 .. 255 :
                IF RecordBytes * (a + 1) <= Len(bytes)
                    THEN /\ rom[a].instruction = Instructions[bytes[RecordBytes * a + 1] + 1]
                         /\ rom[a].value = <<0>> \o SubSeq(bytes, RecordBytes * a + 2,
                                                          RecordBytes * a + 8)
                    ELSE rom[a] = [instruction |-> "HLT", value |-> Zero64]

\* Three records loaded, the fourth already padding, and run to its end.
C10_Witness ==
    /\ status = "done"
    /\ Len(bytes) = 3 * RecordBytes
    /\ rom[2].instruction = "HLT"
    /\ rom[0].instruction = "LDI"
    /\ rom[200] = [instruction |-> "HLT", value |-> Zero64]

\* C11: a buffer of more than 256 records is refused: it is never loaded
\* and no step is made of it.
C11_TooLongRejected ==
    Len(bytes) > RecordBytes * ROM_SIZE => status \in {"run", "panic"} /\ steps = 0

\* A buffer that is not a whole number of records, or that holds a record
\* whose tag names no Instruction.
Malformed(b) ==
    \/ Len(b) % RecordBytes # 0
    \/ \E k \in 0 .. (Len(b) \div RecordBytes) - 1 :
          b[RecordBytes * k + 1] >= NumInstructions

\* C12: a malformed buffer is never loaded: main is still before the load
\* or has panicked, no ProgramState was made and no step was taken.
C12_LoadFailsWhole ==
    Malformed(bytes)
        => /\ status \in {"run", "panic"}
           /\ steps = 0
           /\ last = NoStep
           /\ rom = read_rom(<<>>)
           /\ out = <<>>

\* The load of a valid OUT record followed by a record of tag 255 panicked.
C12_Witness ==
    /\ status = "panic"
    /\ Len(bytes) = 2 * RecordBytes
    /\ bytes[1] = 5
    /\ bytes[RecordBytes + 1] = 255

\* Whether an operand is one of 0 .. 255.
IsU8(v) == SubSeq(v, 1, 7) = <<0, 0, 0, 0, 0, 0, 0>>

\* The record about to be executed uses its operand as a RAM index, a ROM
\* index or the target of a jump that is taken, and the operand is not in
\* 0 .. 255.
BadIndexFetched ==
    LET r == rom[program_counter]
    IN  /\ ~IsU8(r.value)
        /\ \/ r.instruction \in {"LDA", "STA", "ADD", "LDR", "JMP"}
           \/ r.instruction = "JC" /\ "CARRY" \in flags
           \/ r.instruction = "JZ" /\ "ZERO" \in flags

\* C13: a step that fetches such a record ends in the panic, with the RAM,
\* the accumulator, the program counter and the output as they were, and
\* nothing happens after a panic.
C13_BadIndexFatal ==
    [][/\ status # "panic"
       /\ (status = "loop" /\ BadIndexFetched)
            => /\ status' = "panic"
               /\ ram' = ram
               /\ reg_a' = reg_a
               /\ program_counter' = program_counter
               /\ out' = out]_vars

\* STA -1 (operand 2^56 - 1 once encoded) after LDI 2^55 and a first STA 0:
\* the panic left the accumulator and the RAM alone.
C13_Witness ==
    /\ status = "panic"
    /\ last.instruction = "STA"
    /\ last.value = Pow56m1
    /\ reg_a # Zero64
    /\ ram[255] = Zero64
    /\ program_counter = last.program_counter

\* The exact difference of two i64, as nine bytes.
Negate9(x) ==
    WrapAdd([i \in 1 .. 9 |-> 255 - x[i]], <<0, 0, 0, 0, 0, 0, 0, 0, 1>>)
ExactDiff(a, b) == WrapAdd(SignExtend9(a), Negate9(SignExtend9(b)))

\* C14: SUB addr, addr in 0 .. 255, does not panic; it leaves the
\* accumulator at the wrapped difference of the old accumulator and
\* RAM[addr], CARRY set exactly when the exact difference is no i64, ZERO
\* set exactly when the result is 0, and the program counter advanced.
C14_SubAlu ==
    (last.instruction = "SUB" /\ IsU8(last.value))
        => /\ status # "panic"
           /\ reg_a = SubSeq(ExactDiff(last.reg_a, last.operand), 2, 9)
           /\ ("CARRY" \in flags) = ~Fits64(ExactDiff(last.reg_a, last.operand))
           /\ ("ZERO" \in flags) = (reg_a = Zero64)
           /\ (last.program_counter < 255
                  => program_counter = last.program_counter + 1)

\* What the ALU is to leave after adding x to the accumulator of the last
\* step.
AluAdded(x) ==
    /\ reg_a = SubSeq(ExactSum(last.reg_a, x), 2, 9)
    /\ ("CARRY" \in flags) = ~Fits64(ExactSum(last.reg_a, x))
    /\ ("ZERO" \in flags) = (reg_a = Zero64)

\* C15: ADI imm adds imm, and ADR addr, addr in 0 .. 255, adds the operand
\* of ROM[addr], to the accumulator through the ALU; neither panics and
\* both advance the program counter.
C15_AddImmediate ==
    /\ last.instruction = "ADI"
        => /\ status # "panic"
           /\ AluAdded(last.value)
           /\ (last.program_counter < 255
                  => program_counter = last.program_counter + 1)
    /\ (last.instruction = "ADR" /\ IsU8(last.value))
        => /\ status # "panic"
           /\ AluAdded(rom[last.value[8]].value)
           /\ (last.program_counter < 255
                  => program_counter = last.program_counter + 1)

\* A line that has a known mnemonic and, where the mnemonic takes one, a
\* second token that is a number.
LineParses(line) ==
    /\ line[1].text \in InstructionSet
    /\ line[1].text \in TakesValue => (Len(line) >= 2 /\ line[2].int # <<>>)

\* The eight bytes a line is to become.
LineBytes(line) ==
    <<to_primitive(line[1].text)>>
        \o (IF line[1].text \in TakesValue THEN SubSeq(line[2].int, 2, 8)
            ELSE <<0, 0, 0, 0, 0, 0, 0>>)

\* C16: once main is past the compilation of a source, either every line
\* parses and the artifact is the eight bytes of each line in order and
\* nothing more, or the compilation panicked and no byte was written.
C16_AssemblyAtomic ==
    (source # <<>> /\ status # "compile")
        => IF \A k \in 1 .. Len(source) : LineParses(source[k])
               THEN /\ Len(bytes) = RecordBytes * Len(source)
                    /\ \A k \in 1 .. Len(source) :
                          SubSeq(bytes, RecordBytes * (k - 1) + 1, RecordBytes * k)
                              = LineBytes(source[k])
               ELSE status = "panic" /\ bytes = <<>> /\ steps = 0

\* LDI 5; STA x; HLT: the second line has no number, nothing was written.
C16_Witness ==
    /\ status = "panic"
    /\ bytes = <<>>
    /\ Len(source) = 3
    /\ source[1] = Line1("LDI", I64Of(5))
    /\ source[2][1].text = "STA"
    /\ source[3] = Line0("HLT")

\* C17: the load leaves the RAM all zero; a step of STA addr, addr in
\* 0 .. 255, puts the accumulator in RAM[addr] and changes no other cell;
\* a step of anything else changes no cell; and no step changes the ROM.
C17_MemoryFrame ==
    [][/\ (status = "run" /\ status' = "loop") => ram' = ZeroRam
       /\ status = "loop"
            => /\ rom' = rom
               /\ LET r == rom[program_counter]
                  IN  IF r.instruction = "STA" /\ IsU8(r.value)
                          THEN ram' = [a \in 0 .. RAM_SIZE - 1 |->
                                          IF a = r.value[8] THEN reg_a ELSE ram[a]]
                      ELSE ram' = ram]_vars

\* STA 1 of the doubling program stored 1 in RAM[1], beside the sum held in
\* RAM[0], and the cells around them are still zero.
C17_Witness ==
    /\ last.instruction = "STA"
    /\ last.value = I64Of(1)
    /\ ram[1] = I64Of(1)
    /\ ram[0] = MinInt64
    /\ ram[2] = Zero64
    /\ ram[255] = Zero64
    /\ status = "loop"

\* The i64 that the 56 bits of an operand field stand for.
SignExtend56(v) == [v EXCEPT ![1] = IF v[2] >= 128 THEN 255 ELSE 0]

\* C18: LDR addr, addr in 0 .. 255, leaves the accumulator at the
\* sign-extended operand field of ROM[addr], whatever that record is, and
\* leaves CARRY and ZERO as they were.
C18_LoadFromRom ==
    (last.instruction = "LDR" /\ IsU8(last.value))
        => /\ reg_a = SignExtend56(rom[last.value[8]].value)
           /\ flags \cap {"CARRY", "ZERO"} = last.flags \cap {"CARRY", "ZERO"}

\* The record about to be executed is a jump that is taken.
JumpTaken ==
    LET r == rom[program_counter]
    IN  \/ r.instruction = "JMP"
        \/ r.instruction = "JC" /\ "CARRY" \in flags
        \/ r.instruction = "JZ" /\ "ZERO" \in flags

\* C19: JUMP is clear in every state between two steps, the first and the
\* last included. A step changes the jump register only when it takes a
\* jump; a taken jump leaves the program counter at its target, and a step
\* that takes none advances it by one whatever the jump register holds.
C19_JumpOneShot ==
    [][/\ status # "panic" => "JUMP" \notin flags
       /\ status' # "panic" => "JUMP" \notin flags'
       /\ status = "loop"
            => /\ reg_jump' # reg_jump => JumpTaken
               /\ (JumpTaken /\ status' # "panic")
                    => /\ reg_jump' = rom[program_counter].value[8]
                       /\ program_counter' = reg_jump'
               /\ (~JumpTaken /\ status' # "panic")
                    => /\ program_counter' = (program_counter + 1) % 256
                       /\ reg_jump' = reg_jump]_vars

\* After JMP 254 the NOP at 254 moved the program counter on to 255, the
\* jump register still holding 254.
C19_Witness ==
    /\ status = "loop"
    /\ last.instruction = "NOP"
    /\ last.program_counter = 254
    /\ reg_jump = 254
    /\ program_counter = 255
    /\ flags = NONE

\* The loaded image has n < 256 whole records, none of them a jump, and
\* every operand that is an index lies in 0 .. 255.
NumRecords == Len(bytes) \div RecordBytes
StraightLine ==
    /\ ~Malformed(bytes)
    /\ NumRecords < ROM_SIZE
    /\ \A a \in 0 .. NumRecords - 1 :
          /\ rom[a].instruction \notin {"JMP", "JC", "JZ"}
          /\ rom[a].instruction \in {"LDA", "STA", "ADD", "SUB", "LDR", "ADR"}
                => IsU8(rom[a].value)

\* C20: the run of such an image does not panic, is over exactly when HLT
\* was executed, has made at most n + 1 steps, and its program counter is
\* the number of steps made (it has not wrapped).
C20_HaltsByPadding ==
    ((status \in {"loop", "done"} \/ (status = "panic" /\ steps > 0)) /\ StraightLine)
        => /\ status # "panic"
           /\ steps <= NumRecords + 1
           /\ program_counter = steps
           /\ (status = "done") = (last.instruction = "HLT")
           /\ steps = NumRecords + 1 => status = "done"

====
